---------------------------- MODULE Spec2Model ----------------------------
(***************************************************************************)
(* Model of fast_forward's modified Boltzmann inversion                    *)
(* (pycgmap/modf_boltzmann_inversion.py) and of the lattice construction   *)
(* of the universe handler (fast_forward/universe_handler.py).             *)
(*                                                                         *)
(* Floating point numbers are modelled as decimal fixed point numbers with *)
(* three fractional digits (the integer n stands for n / SCALE), extended  *)
(* by the IEEE specials numpy produces instead of raising: +-inf and nan.  *)
(***************************************************************************)
EXTENDS Integers, Sequences, FiniteSets, TLC

----------------------------------------------------------------------------
(* Fixed point arithmetic.                                                 *)

\* one unit of the fixed point representation
SCALE == 10 ^ 3

\* np.pi, as a fixed point number
PI == 3142

Abs(a) == IF a < 0 THEN -a ELSE a

Sgn(a) == IF a < 0 THEN -1 ELSE IF a = 0 THEN 0 ELSE 1

\* integer division that truncates toward zero
TruncDiv(a, b) == Sgn(a) * Sgn(b) * (Abs(a) \div Abs(b))

\* a * b of two fixed point numbers, without the intermediate a * b
MulFx(a, b) ==
    LET m == Abs(a)
        n == Abs(b)
    IN  Sgn(a) * Sgn(b) * ((m \div SCALE) * n + ((m % SCALE) * n) \div SCALE)

\* a / b of two fixed point numbers, b # 0
DivFx(a, b) ==
    LET m == Abs(a)
        n == Abs(b)
    IN  Sgn(a) * Sgn(b) *
            (IF n < 2000000
             THEN (m \div n) * SCALE + ((m % n) * SCALE) \div n
             ELSE m \div (n \div SCALE))

RECURSIVE ISqrtIn(_, _, _)
\* the largest r in lo..hi with r * r <= n, by bisection
ISqrtIn(n, lo, hi) ==
    IF lo >= hi THEN lo
    ELSE LET mid == (lo + hi + 1) \div 2
         IN  IF mid * mid <= n THEN ISqrtIn(n, mid, hi)
                               ELSE ISqrtIn(n, lo, mid - 1)

ISqrt(n) == ISqrtIn(n, 0, 46340)

\* square root of a fixed point number a >= 0
SqrtFx(a) ==
    IF a < 2000000 THEN ISqrt(a * SCALE)
                   ELSE 100 * ISqrt(a \div 10)

RECURSIVE SinSeries(_, _, _, _)
\* the Taylor series of sin from the term `term` = x^n / n! on, to x^15
SinSeries(x2, term, n, acc) ==
    IF n > 15 \/ term = 0 THEN acc
    ELSE SinSeries(x2, -TruncDiv(MulFx(term, x2), (n + 1) * (n + 2)), n + 2,
                   acc + term)

\* x reduced to (-PI, PI]
WrapPi(x) ==
    LET r == x % (2 * PI)
    IN  IF r > PI THEN r - 2 * PI ELSE r

\* sin of a fixed point number of radians
SinFx(x) ==
    LET w == WrapPi(x)
        \* sin(w) = sin(PI - w): fold onto [-PI/2, PI/2]
        f == IF w > PI \div 2 THEN PI - w
             ELSE IF w < -(PI \div 2) THEN -PI - w
             ELSE w
    IN  SinSeries(MulFx(f, f), f, 1, 0)

\* cos of a fixed point number of radians
CosFx(x) == SinFx(PI \div 2 - x)

----------------------------------------------------------------------------
(* Floating point values: a finite fixed point number, an infinity (v is   *)
(* its sign) or nan.                                                       *)

Fin(n) == [cls |-> "fin", v |-> n]

Inf(s) == [cls |-> "inf", v |-> s]

NaN == [cls |-> "nan", v |-> 0]

IsFinite(a) == a.cls = "fin"

\* sign of a float that is not nan
FSgn(a) == Sgn(a.v)

\* a / b as numpy divides float64 scalars: a zero divisor gives inf or nan
\* (and a RuntimeWarning), never an exception
FDiv(a, b) ==
    CASE a.cls = "nan" \/ b.cls = "nan" -> NaN
      [] a.cls = "inf" /\ b.cls = "inf" -> NaN
      [] a.cls = "inf" -> Inf(FSgn(a) * (IF FSgn(b) < 0 THEN -1 ELSE 1))
      [] b.cls = "inf" -> Fin(0)
      [] b.v = 0 -> IF a.v = 0 THEN NaN ELSE Inf(FSgn(a))
      [] OTHER -> Fin(DivFx(a.v, b.v))

FMul(a, b) ==
    CASE a.cls = "nan" \/ b.cls = "nan" -> NaN
      [] a.cls = "inf" \/ b.cls = "inf" ->
            IF FSgn(a) * FSgn(b) = 0 THEN NaN ELSE Inf(FSgn(a) * FSgn(b))
      [] OTHER -> Fin(MulFx(a.v, b.v))

FNeg(a) == IF a.cls = "nan" THEN NaN ELSE [a EXCEPT !.v = -a.v]

FSub(a, b) ==
    CASE a.cls = "nan" \/ b.cls = "nan" -> NaN
      [] a.cls = "inf" /\ b.cls = "inf" ->
            IF a.v = b.v THEN NaN ELSE a
      [] a.cls = "inf" -> a
      [] b.cls = "inf" -> Inf(-b.v)
      [] OTHER -> Fin(a.v - b.v)

FAdd(a, b) == FSub(a, FNeg(b))

\* np.sqrt: nan (and a RuntimeWarning) for a negative argument
FSqrt(a) ==
    CASE a.cls = "nan" -> NaN
      [] a.cls = "inf" -> IF a.v > 0 THEN a ELSE NaN
      [] a.v < 0 -> NaN
      [] OTHER -> Fin(SqrtFx(a.v))

----------------------------------------------------------------------------
(* numpy reductions over a time series: a non-empty sequence of fixed      *)
(* point numbers, one per frame.                                           *)

RECURSIVE SumSeq(_)
SumSeq(s) == IF s = << >> THEN 0 ELSE Head(s) + SumSeq(Tail(s))

\* np.average(time_series)
np_average(s) == TruncDiv(SumSeq(s), Len(s))

\* np.deg2rad of one number
Deg2Rad(a) == TruncDiv(a * PI, 180 * SCALE)

\* np.deg2rad(time_series), elementwise
np_deg2rad(s) == [n \in DOMAIN s |-> Deg2Rad(s[n])]

\* np.std(time_series): the root of the mean squared deviation from the mean
np_std(s) ==
    LET m == np_average(s)
        sq == [n \in DOMAIN s |-> MulFx(s[n] - m, s[n] - m)]
    IN  SqrtFx(TruncDiv(SumSeq(sq), Len(s)))

\* a ** 2. of a fixed point number
Sq(a) == MulFx(a, a)

----------------------------------------------------------------------------
(* Interactions and their parameter lists.  A parameter is a string (the   *)
(* functional form code, "not implemented") or a float.                    *)

Str(t) == [tag |-> "str", s |-> t, num |-> Fin(0)]

Num(f) == [tag |-> "num", s |-> "", num |-> f]

\* a local name no statement has assigned yet
Unbound == [cls |-> "unbound", v |-> 0]

\* default of the parameter temp
DefaultTemp == 298150

\* default of the parameter gas_const
DefaultGasConst == 8314

\* the keys of NORMAL_FUNCS
NORMAL_FUNCS == {"angles", "bonds", "constraints", "dihedrals"}

\* HasReducer with a reducer registered for impropers as well
HasReducerImpropers(inter_type) == inter_type \in NORMAL_FUNCS \cup {"impropers"}

\* NORMAL_FUNCS[inter_type] finds a reducer (it raises KeyError otherwise)
HasReducer(inter_type) == inter_type \in NORMAL_FUNCS

\* the characters of the interaction kinds the model draws from
KindChars(kind) ==
    CASE kind = "bonds" -> <<"b", "o", "n", "d", "s">>
      [] kind = "angles" -> <<"a", "n", "g", "l", "e", "s">>
      [] kind = "constraints" ->
            <<"c", "o", "n", "s", "t", "r", "a", "i", "n", "t", "s">>
      [] kind = "dihedrals" -> <<"d", "i", "h", "e", "d", "r", "a", "l", "s">>
      [] kind = "impropers" -> <<"i", "m", "p", "r", "o", "p", "e", "r", "s">>

DigitChar(d) == <<"0", "1", "2", "3", "4", "5", "6", "7", "8", "9">>[d + 1]

RECURSIVE IntChars(_)
\* str(n) of an atom index n >= 0
IntChars(n) ==
    IF n < 10 THEN <<DigitChar(n)>>
    ELSE IntChars(n \div 10) \o <<DigitChar(n % 10)>>

RECURSIVE Join(_, _)
\* sep.join(map(str, atoms))
Join(sep, atoms) ==
    IF atoms = << >> THEN << >>
    ELSE IF Len(atoms) = 1 THEN IntChars(atoms[1])
    ELSE IntChars(atoms[1]) \o sep \o Join(sep, Tail(atoms))

\* AtomSeparator of a join on the empty string
AtomSeparatorNone == << >>

\* the separator of the atom indices in a file name
AtomSeparator == <<"_">>

\* the name of the time series file, as a sequence of characters
FileName(inter_type, func_type, atoms) ==
    KindChars(inter_type) \o <<"-">> \o <<func_type>> \o <<"_">>
        \o Join(AtomSeparator, atoms) \o <<".", "x", "v", "g">>

----------------------------------------------------------------------------
(* The branches of modf_blotzmann_inversion.                               *)

\* the condition of the first if
FirstIf(func_type, inter_type) == func_type = "1" /\ inter_type = "angles"

\* the condition of the elif chained onto the first if
FirstElif(func_type, inter_type) == func_type = "2" /\ inter_type = "bonds"

\* the condition of the second, independent if
SecondIf(func_type, inter_type) == func_type = "2" /\ inter_type = "angles"

\* AngleForceConstant with the sine taken of avg in degrees
AngleForceConstantDegrees(const, sig, avg) ==
    FDiv(const, Fin(MulFx(Sq(sig.v), Sq(SinFx(avg.v)))))

\* const/(sig**2.*np.sin(np.deg2rad(avg))**2.0)
AngleForceConstant(const, sig, avg) ==
    FDiv(const, Fin(MulFx(Sq(sig.v), Sq(SinFx(Deg2Rad(avg.v))))))

\* const/(sig**2.*np.sin(avg)**2.0)
BondForceConstant(const, sig, avg) ==
    FDiv(const, Fin(MulFx(Sq(sig.v), Sq(SinFx(avg.v)))))

\* const/sig**2.
PlainForceConstant(const, sig) == FDiv(const, Fin(Sq(sig.v)))

\* FittedParameters without the branch of the constraints
FittedParametersNoConstraints(inter_type, func_type, avg, k) ==
    IF inter_type = "dihedrals"
    THEN <<Str(func_type), Str("not implemented")>>
    ELSE <<Str(func_type), Num(avg), Num(k)>>

\* the list assigned to interaction.parameters[:]
FittedParameters(inter_type, func_type, avg, k) ==
    IF inter_type = "constraints" THEN <<Str(func_type), Num(avg)>>
    ELSE IF inter_type = "dihedrals"
         THEN <<Str(func_type), Str("not implemented")>>
    ELSE <<Str(func_type), Num(avg), Num(k)>>

----------------------------------------------------------------------------
(* Inputs.                                                                 *)

\* the largest number of frames of a time series
MaxFrames == 2

\* the number of interactions fitted concurrently
NInter == 2

Kinds == NORMAL_FUNCS \cup {"impropers"}

Forms == {"1", "2"}

\* observables of the reducers of NORMAL_FUNCS: angles in degrees, lengths
AngleSamples == {60 * SCALE, 90 * SCALE}

DihedralSamples == {-60 * SCALE, 60 * SCALE}

LengthSamples == {300, 900}

Samples(kind) ==
    IF kind = "angles" THEN AngleSamples
    ELSE IF kind = "dihedrals" THEN DihedralSamples
    ELSE LengthSamples

SeriesOf(kind) == UNION {[1..n -> Samples(kind)] : n \in 1..MaxFrames}

\* the series of a concurrent run: two frames, with and without spread
PoolSeriesOf(kind) ==
    {s \in [1..2 -> Samples(kind)] : \A v \in Samples(kind) : v <= s[2]}

AtomsOf(kind) ==
    IF kind \in {"bonds", "constraints"} THEN {<<1, 12>>, <<11, 2>>}
    ELSE IF kind = "angles" THEN {<<1, 2, 3>>}
    ELSE {<<1, 2, 3, 4>>}

\* parameter lists an interaction may hold on entry
EntryParameters(form) == {<<Str(form)>>, <<Str(form), Str("old")>>}

Interactions ==
    {[kind |-> kd, atoms |-> at, parameters |-> ps] :
        kd \in Kinds, at \in UNION {AtomsOf(q) : q \in Kinds},
        ps \in UNION {EntryParameters(f) : f \in Forms}}

\* the interactions of a run of the single fit
FitInteractions == {n \in Interactions : n.atoms \in AtomsOf(n.kind)}

\* the interactions of a concurrent run
PoolInteractions ==
    {n \in FitInteractions :
        /\ n.kind \in {"bonds", "angles", "impropers"}
        /\ Len(n.parameters) = 1}

Temperatures == {DefaultTemp, 350 * SCALE}

\* the locals of a call that has not started
\* emitted is history: the calls of np.savetxt the call has made
NoFrame ==
    [pc |-> "idle", entry |-> << >>, const |-> Unbound,
     func_type |-> "", time_series |-> << >>, avg |-> Unbound,
     sig |-> Unbound, k |-> Unbound, emitted |-> << >>]

----------------------------------------------------------------------------
(* The lattice of a box (universe_handler.py).  A matrix is a sequence of  *)
(* three rows of three floats.                                             *)

\* np.pi * angle / 180
Radians(angle) == TruncDiv(MulFx(PI, angle), 180)

\* dim2lattice(x, y, z, alpha, beta, gamma): no statement of it raises
dim2lattice(x, y, z, alpha, beta, gamma) ==
    LET cosa == Fin(CosFx(Radians(alpha)))
        cosb == Fin(CosFx(Radians(beta)))
        cosg == Fin(CosFx(Radians(gamma)))
        sing == Fin(SinFx(Radians(gamma)))
        zx == FMul(Fin(z), cosb)
        zy == FDiv(FMul(Fin(z), FSub(cosa, FMul(cosb, cosg))), sing)
        zz == FSqrt(FSub(FSub(FMul(Fin(z), Fin(z)), FMul(zx, zx)),
                         FMul(zy, zy)))
    IN  << <<Fin(x), Fin(0), Fin(0)>>,
           <<FMul(Fin(y), cosg), FMul(Fin(y), sing), Fin(0)>>,
           <<zx, zy, zz>> >>

\* dim2lattice(*dimensions) of the six numbers of a frame
LatticeOf(d) == dim2lattice(d[1], d[2], d[3], d[4], d[5], d[6])

MatrixFinite(m) == \A r \in 1..3 : \A c \in 1..3 : IsFinite(m[r][c])

\* the index after n, cyclically in 1..3
Nx(n) == (n % 3) + 1

\* the signed cofactor of m at row r and column c
Cofactor(m, r, c) ==
    FSub(FMul(m[Nx(r)][Nx(c)], m[Nx(Nx(r))][Nx(Nx(c))]),
         FMul(m[Nx(r)][Nx(Nx(c))], m[Nx(Nx(r))][Nx(c)]))

Det(m) ==
    FAdd(FAdd(FMul(m[1][1], Cofactor(m, 1, 1)),
              FMul(m[1][2], Cofactor(m, 1, 2))),
         FMul(m[1][3], Cofactor(m, 1, 3)))

\* np.linalg.inv raises LinAlgError on this matrix
Singular(m) == MatrixFinite(m) /\ Det(m).v = 0

\* 2 * np.pi * np.linalg.inv(m) of a finite matrix that is not singular
ScaledInverse(m) ==
    [r \in 1..3 |-> [c \in 1..3 |->
        FMul(Fin(2 * PI), FDiv(Cofactor(m, c, r), Det(m)))]]

\* what np.linalg.inv leaves when LAPACK factors a matrix with a nan or an
\* infinity in it without an error
NaNMatrix == [r \in 1..3 |-> [c \in 1..3 |-> NaN]]

\* a row of coordinates @ a matrix
RowTimes(row, m) ==
    [c \in 1..3 |->
        FAdd(FAdd(FMul(row[1], m[1][c]), FMul(row[2], m[2][c])),
             FMul(row[3], m[3][c]))]

\* the frames' boxes the model draws from: x, y, z, alpha, beta, gamma
Boxes ==
    {<<5 * SCALE, 5 * SCALE, z, a * SCALE, b * SCALE, g * SCALE>> :
        z \in {0, 5 * SCALE}, a \in {30, 60, 90}, b \in {45, 90},
        g \in {0, 90}}

\* the position of the one atom the model tracks, in every frame
Position == <<Fin(1 * SCALE), Fin(2 * SCALE), Fin(3 * SCALE)>>

----------------------------------------------------------------------------
(* State.                                                                  *)

VARIABLES
    temp,       \* the temp argument of the calls of a run
    gas_const,  \* the gas_const argument of the calls of a run
    inter,      \* the interactions of the caller, by number
    distances,  \* per interaction, what the reducer of its kind yields for
                \* the distances argument of the call: one number per frame
    fr,         \* the locals and the position of the call on each of them
    files,      \* the files np.savetxt has written: name -> content
    upc,        \* the position of UniverseHandler.__init__
    istraj,     \* the second argument names a trr or xtc file
    dimensions, \* the box of each frame of the trajectory
    pbc,        \* self.pbc: a lattice per frame, << >> before it is set
    ipbc,       \* self.ipbc
    reciprocal  \* self.reciprocal

fitvars == <<temp, gas_const, inter, distances, fr, files>>

univars == <<upc, istraj, dimensions, pbc, ipbc, reciprocal>>

vars == <<fitvars, univars>>

\* no UniverseHandler is under construction
NoUniverse ==
    /\ upc = "none"
    /\ istraj = FALSE
    /\ dimensions = << >>
    /\ pbc = << >>
    /\ ipbc = << >>
    /\ reciprocal = << >>

\* no interaction is fitted
NoFit ==
    /\ temp = DefaultTemp
    /\ gas_const = DefaultGasConst
    /\ inter = << >>
    /\ distances = << >>
    /\ fr = << >>
    /\ files = << >>

Ids == DOMAIN inter

InitFit ==
    /\ temp \in Temperatures
    /\ gas_const = DefaultGasConst
    /\ inter \in [1..1 -> FitInteractions]
    /\ distances \in [1..1 -> UNION {SeriesOf(q) : q \in Kinds}]
    /\ \A i \in 1..1 : distances[i] \in SeriesOf(inter[i].kind)
    /\ fr = [i \in 1..1 |-> NoFrame]
    /\ files = << >>
    /\ NoUniverse

InitPool ==
    /\ temp = DefaultTemp
    /\ gas_const = DefaultGasConst
    /\ inter \in [1..NInter -> PoolInteractions]
    /\ distances \in [1..NInter -> UNION {PoolSeriesOf(q) : q \in Kinds}]
    /\ \A i \in 1..NInter : distances[i] \in PoolSeriesOf(inter[i].kind)
    /\ fr = [i \in 1..NInter |-> NoFrame]
    /\ files = << >>
    /\ NoUniverse

----------------------------------------------------------------------------
(* modf_blotzmann_inversion(inter_type, interaction, distances, temp,      *)
(* gas_const), one action per group of statements.                         *)

\* Successor with np.savetxt moved behind the two conditional blocks
SuccessorEmitLast(label) ==
    CASE label = "call" -> "first"
      [] label = "first" -> "second"
      [] label = "second" -> "emit"
      [] label = "emit" -> "write"
      [] label = "write" -> "done"

\* the label of the statements that follow those of `label`
Successor(label) ==
    CASE label = "call" -> "emit"
      [] label = "emit" -> "first"
      [] label = "first" -> "second"
      [] label = "second" -> "write"
      [] label = "write" -> "done"

\* entry to np.fromiter: const, func_type, the choice of the vectors and the
\* reduction of the vectors to the time series; a kind without a reducer
\* raises here
Call(i) ==
    /\ fr[i].pc = "idle"
    /\ LET called == [fr[i] EXCEPT
               !.entry = inter[i].parameters,
               !.const = Fin(MulFx(temp, gas_const)),
               !.func_type = inter[i].parameters[1].s]
       IN  IF HasReducer(inter[i].kind)
           THEN fr' = [fr EXCEPT ![i] =
                     [called EXCEPT !.time_series = distances[i],
                                    !.pc = Successor("call")]]
           ELSE fr' = [fr EXCEPT ![i] = [called EXCEPT !.pc = "failed"]]
    /\ UNCHANGED <<temp, gas_const, inter, distances, files, univars>>

\* filename = ...; np.savetxt(filename, time_series)
Emit(i) ==
    /\ fr[i].pc = "emit"
    /\ LET filename == FileName(inter[i].kind, fr[i].func_type, inter[i].atoms)
       IN  /\ files' = [n \in DOMAIN files \cup {filename} |->
                           IF n = filename THEN fr[i].time_series ELSE files[n]]
           /\ fr' = [fr EXCEPT
                  ![i].emitted = Append(@, [name |-> filename,
                                            data |-> fr[i].time_series,
                                            avg |-> fr[i].avg,
                                            sig |-> fr[i].sig]),
                  ![i].pc = Successor("emit")]
    /\ UNCHANGED <<temp, gas_const, inter, distances, univars>>

\* avg = np.average(time_series) and the first if / elif
FirstBlock(i) ==
    /\ fr[i].pc = "first"
    /\ LET f == fr[i]
           avg == Fin(np_average(f.time_series))
           rad == np_deg2rad(f.time_series)
       IN  fr' = [fr EXCEPT ![i] =
              IF FirstIf(f.func_type, inter[i].kind)
              THEN [f EXCEPT !.avg = avg,
                             !.time_series = rad,
                             !.sig = Fin(np_std(rad)),
                             !.k = AngleForceConstant(f.const, Fin(np_std(rad)), avg),
                             !.pc = Successor("first")]
              ELSE IF FirstElif(f.func_type, inter[i].kind)
              THEN [f EXCEPT !.avg = avg,
                             !.sig = Fin(np_std(f.time_series)),
                             !.k = BondForceConstant(f.const,
                                      Fin(np_std(f.time_series)), avg),
                             !.pc = Successor("first")]
              ELSE [f EXCEPT !.avg = avg, !.pc = Successor("first")]]
    /\ UNCHANGED <<temp, gas_const, inter, distances, files, univars>>

\* the second if / else
SecondBlock(i) ==
    /\ fr[i].pc = "second"
    /\ LET f == fr[i]
           rad == np_deg2rad(f.time_series)
       IN  fr' = [fr EXCEPT ![i] =
              IF SecondIf(f.func_type, inter[i].kind)
              THEN [f EXCEPT !.time_series = rad,
                             !.sig = Fin(np_std(rad)),
                             !.k = AngleForceConstant(f.const, Fin(np_std(rad)), f.avg),
                             !.pc = Successor("second")]
              ELSE [f EXCEPT !.sig = Fin(np_std(f.time_series)),
                             !.k = PlainForceConstant(f.const,
                                      Fin(np_std(f.time_series))),
                             !.pc = Successor("second")]]
    /\ UNCHANGED <<temp, gas_const, inter, distances, files, univars>>

\* Target of calls that share the parameter list of the first interaction
TargetFirst(i) == 1

\* the interaction whose parameter list the call on interaction i assigns
Target(i) == i

\* interaction.parameters[:] = ...; return interaction
WriteParameters(i) ==
    /\ fr[i].pc = "write"
    /\ inter' = [inter EXCEPT ![Target(i)].parameters =
                    FittedParameters(inter[i].kind, fr[i].func_type,
                                     fr[i].avg, fr[i].k)]
    /\ fr' = [fr EXCEPT ![i].pc = Successor("write")]
    /\ UNCHANGED <<temp, gas_const, distances, files, univars>>

NextFit ==
    \/ \E i \in Ids : Call(i)
    \/ \E i \in Ids : Emit(i)
    \/ \E i \in Ids : FirstBlock(i)
    \/ \E i \in Ids : SecondBlock(i)
    \/ \E i \in Ids : WriteParameters(i)

\* one call of modf_blotzmann_inversion
Spec == InitFit /\ [][NextFit]_vars

\* NInter calls on NInter interactions, their statements interleaved
SpecPool == InitPool /\ [][NextFit]_vars

----------------------------------------------------------------------------
(* UniverseHandler.__init__, from istraj on.                               *)

\* the largest number of frames of a trajectory
MaxTrajFrames == 2

\* a single structure has one frame, a trajectory one or more
InitUniverse ==
    /\ NoFit
    /\ upc = "new"
    /\ istraj \in BOOLEAN
    /\ dimensions \in UNION {[1..n -> Boxes] : n \in 1..MaxTrajFrames}
    /\ istraj = FALSE => Len(dimensions) = 1
    /\ pbc = << >>
    /\ ipbc = << >>
    /\ reciprocal = << >>

\* self.pbc = ...: one lattice per frame, or the lattice of the structure
\* with a leading axis of length one
BuildPbc ==
    /\ upc = "new"
    /\ pbc' = IF istraj
              THEN [f \in DOMAIN dimensions |-> LatticeOf(dimensions[f])]
              ELSE <<LatticeOf(dimensions[1])>>
    /\ upc' = "pbc"
    /\ UNCHANGED <<fitvars, istraj, dimensions, ipbc, reciprocal>>

\* self.ipbc = 2 * np.pi * np.linalg.inv(self.pbc), lattices all finite
Invert ==
    /\ upc = "pbc"
    /\ \A f \in DOMAIN pbc : MatrixFinite(pbc[f])
    /\ IF \E f \in DOMAIN pbc : Singular(pbc[f])
       THEN upc' = "LinAlgError" /\ ipbc' = ipbc
       ELSE /\ upc' = "ipbc"
            /\ ipbc' = [f \in DOMAIN pbc |-> ScaledInverse(pbc[f])]
    /\ UNCHANGED <<fitvars, istraj, dimensions, pbc, reciprocal>>

\* the same statement on a stack with a nan or an infinity in a lattice:
\* LAPACK either meets an exactly zero pivot, and inv raises, or leaves
\* nan in the inverse of that lattice
InvertNonFinite ==
    /\ upc = "pbc"
    /\ \E f \in DOMAIN pbc : ~MatrixFinite(pbc[f])
    /\ \/ upc' = "LinAlgError" /\ ipbc' = ipbc
       \/ /\ ~\E f \in DOMAIN pbc : Singular(pbc[f])
          /\ upc' = "ipbc"
          /\ ipbc' = [f \in DOMAIN pbc |->
                         IF MatrixFinite(pbc[f]) THEN ScaledInverse(pbc[f])
                                                 ELSE NaNMatrix]
    /\ UNCHANGED <<fitvars, istraj, dimensions, pbc, reciprocal>>

\* self.reciprocal = self.coordinates @ self.ipbc
Project ==
    /\ upc = "ipbc"
    /\ reciprocal' = [f \in DOMAIN ipbc |-> RowTimes(Position, ipbc[f])]
    /\ upc' = "done"
    /\ UNCHANGED <<fitvars, istraj, dimensions, pbc, ipbc>>

NextUniverse == BuildPbc \/ Invert \/ InvertNonFinite \/ Project

\* the construction of one UniverseHandler
SpecLattice == InitUniverse /\ [][NextUniverse]_vars

----------------------------------------------------------------------------
(* Properties of modf_blotzmann_inversion.                                 *)

Returned(i) == fr[i].pc = "done"

\* the form code the interaction held on entry
FormOf(i) == fr[i].entry[1].s

\* temp * gas_const
RT == Fin(MulFx(temp, gas_const))

\* const / (sig^2 * sin^2(radians(avg))), avg the mean of the series in
\* degrees and sig the standard deviation of the series in radians
AngleCorrected(series) ==
    LET sig == np_std([n \in DOMAIN series |-> Deg2Rad(series[n])])
        sine == SinFx(Deg2Rad(np_average(series)))
    IN  FDiv(RT, Fin(MulFx(MulFx(sig, sig), MulFx(sine, sine))))

\* const / (sig^2 * sin^2(avg)), sig and avg of the untransformed series
BondCorrected(series) ==
    LET sig == np_std(series)
        sine == SinFx(np_average(series))
    IN  FDiv(RT, Fin(MulFx(MulFx(sig, sig), MulFx(sine, sine))))

\* the series of the call on i has spread, also after its conversion
HasSpread(i) ==
    np_std(distances[i]) # 0 /\ np_std(np_deg2rad(distances[i])) # 0

\* C1: a returned fit of an angle of form "1" on a series with spread has
\* written const / (sig^2 * sin^2(radians(avg))) as parameters[2]; no later
\* branch has replaced it.
C1_AngleForm1KeepsCorrectedConstant ==
    \A i \in Ids :
        (Returned(i) /\ inter[i].kind = "angles" /\ FormOf(i) = "1"
            /\ HasSpread(i))
        => inter[i].parameters[3] = Num(AngleCorrected(distances[i]))

\* C2: a returned fit of a bond of form "2" has written
\* const / (sig^2 * sin^2(avg)) as parameters[2]; the second conditional
\* block has not overwritten it.
C2_BondForm2KeepsCorrectedConstant ==
    \A i \in Ids :
        (Returned(i) /\ inter[i].kind = "bonds" /\ FormOf(i) = "2")
        => inter[i].parameters[3] = Num(BondCorrected(distances[i]))

\* C3: a fit of a bond or an angle on a series of zero variance ends in an
\* error; it never returns normally (with an infinite force constant in the
\* parameters).
C3_ZeroVarianceRaises ==
    \A i \in Ids :
        (inter[i].kind \in {"bonds", "angles"} /\ np_std(distances[i]) = 0)
        => ~Returned(i)

\* C4: a returned fit of an angle of form "2" on a series with spread has
\* written const / (sig^2 * sin^2(radians(avg))) as parameters[2], sig the
\* standard deviation of the series in radians and avg its mean in degrees:
\* the value of the second conditional block is kept.
C4_AngleForm2CorrectedConstant ==
    \A i \in Ids :
        (Returned(i) /\ inter[i].kind = "angles" /\ FormOf(i) = "2"
            /\ HasSpread(i))
        => /\ inter[i].parameters[3] = Num(AngleCorrected(distances[i]))
           /\ fr[i].sig = Fin(np_std(np_deg2rad(distances[i])))

C4_Witness ==
    \E i \in Ids :
        /\ Returned(i) /\ inter[i].kind = "angles" /\ FormOf(i) = "2"
        /\ HasSpread(i)
        /\ IsFinite(inter[i].parameters[3].num)
        /\ inter[i].parameters[3].num.v > 0

IsConstant(series) == \A n \in DOMAIN series : series[n] = series[1]

\* C5: after a normal return the parameters have the shape of the kind and
\* start with the form code held on entry: [form, avg] for constraints,
\* [form, "not implemented"] for dihedrals, [form, avg, k] for bonds and
\* angles.  Constraints and dihedrals never fail, whatever the series; on a
\* constant series avg is the constant.
C5_ParameterShape ==
    \A i \in Ids :
        LET kind == inter[i].kind
            ps == inter[i].parameters
            avg == Num(Fin(np_average(distances[i])))
        IN  /\ kind \in {"constraints", "dihedrals"} => fr[i].pc # "failed"
            /\ Returned(i) =>
                /\ ps[1] = Str(FormOf(i))
                /\ kind = "constraints" =>
                      /\ ps = <<Str(FormOf(i)), avg>>
                      /\ IsConstant(distances[i]) =>
                            ps[2] = Num(Fin(distances[i][1]))
                /\ kind = "dihedrals" =>
                      ps = <<Str(FormOf(i)), Str("not implemented")>>
                /\ kind \in {"bonds", "angles"} =>
                      /\ Len(ps) = 3
                      /\ ps[2] = avg
                      /\ ps[3] = Num(fr[i].k)
                      /\ fr[i].k # Unbound

C5_Witness ==
    \E i \in Ids :
        /\ Returned(i) /\ inter[i].kind = "constraints"
        /\ Len(distances[i]) > 1 /\ IsConstant(distances[i])
        /\ Len(fr[i].entry) = 2
        /\ inter[i].parameters = <<Str(FormOf(i)), Num(Fin(distances[i][1]))>>

\* C6: a fit of a kind outside bonds, angles, constraints and dihedrals
\* fails at the dispatch: no time series file is written, and the
\* parameters are those held on entry.
C6_UnsupportedKindFails ==
    \A i \in Ids :
        inter[i].kind \notin {"bonds", "angles", "constraints", "dihedrals"}
        => /\ fr[i].pc \in {"idle", "failed"}
           /\ fr[i].emitted = << >>
           /\ fr[i].pc = "failed" => inter[i].parameters = fr[i].entry
           /\ FileName(inter[i].kind, inter[i].parameters[1].s,
                       inter[i].atoms) \notin DOMAIN files

C6_Witness ==
    \E i \in Ids :
        /\ inter[i].kind = "impropers" /\ fr[i].pc = "failed"
        /\ inter[i].parameters = fr[i].entry /\ files = << >>

\* C7: a call that reaches the fit emits the time series exactly once, before
\* the mean, the standard deviation or a conversion to radians is computed;
\* what it emits is the series in its native unit, and the emission leaves
\* the series the statistics are computed on unaltered.
C7_EmitOnceBeforeStatistics ==
    \A i \in Ids :
        /\ fr[i].pc \in {"idle", "emit", "failed"} => fr[i].emitted = << >>
        /\ fr[i].pc \in {"first", "second", "write", "done"} =>
              /\ Len(fr[i].emitted) = 1
              /\ fr[i].emitted[1].data = distances[i]
              /\ fr[i].emitted[1].avg = Unbound
              /\ fr[i].emitted[1].sig = Unbound
        /\ fr[i].pc = "first" => fr[i].time_series = distances[i]
        /\ fr[i].avg # Unbound => fr[i].avg = Fin(np_average(distances[i]))

C7_Witness ==
    \E i \in Ids :
        /\ Returned(i) /\ inter[i].kind = "angles"
        /\ Len(fr[i].emitted) = 1
        /\ fr[i].emitted[1].data = distances[i]
        /\ fr[i].time_series = np_deg2rad(distances[i])
        /\ fr[i].time_series # distances[i]

\* the calls that have written their time series file
Emitted == {i \in Ids : fr[i].emitted # << >>}

\* what names the file of the call on i
Key(i) == <<inter[i].kind, FormOf(i), inter[i].atoms>>

\* C8 as stated: there is one file per fitted interaction, and every fitted
\* interaction's file holds the series of its own fit, also when two
\* interactions share kind, form code and atoms.
C8_OneFilePerInteraction ==
    /\ Cardinality(DOMAIN files) = Cardinality(Emitted)
    /\ \A i \in Emitted : files[fr[i].emitted[1].name] = fr[i].emitted[1].data

\* C8 as amended: there is one file per distinct (kind, form code, atoms) of
\* the fitted interactions, named {kind}-{form}_{atoms joined by _}.xvg; two
\* fits write the same file exactly when they share kind, form code and
\* atoms, and a file holds the series of a fit of that kind, form and atoms.
C8_OneFilePerKey ==
    /\ Cardinality(DOMAIN files) = Cardinality({Key(i) : i \in Emitted})
    /\ \A i \in Emitted :
          /\ fr[i].emitted[1].name \in DOMAIN files
          /\ \E j \in Emitted :
                /\ Key(j) = Key(i)
                /\ files[fr[i].emitted[1].name] = fr[j].emitted[1].data
    /\ \A i, j \in Emitted :
          fr[i].emitted[1].name = fr[j].emitted[1].name <=> Key(i) = Key(j)

C8_Witness ==
    \E i, j \in Emitted :
        /\ i # j /\ Key(i) = Key(j) /\ Returned(i) /\ Returned(j)
        /\ distances[i] # distances[j]
        /\ files[fr[i].emitted[1].name] = distances[j]
        /\ Cardinality(DOMAIN files) = 1

\* what a call returns as parameters when it runs alone
FitAlone(kind, form, series) ==
    LET avg == Fin(np_average(series))
        rad == np_deg2rad(series)
        k == IF SecondIf(form, kind)
             THEN AngleForceConstant(RT, Fin(np_std(rad)), avg)
             ELSE IF FirstIf(form, kind)
             THEN PlainForceConstant(RT, Fin(np_std(rad)))
             ELSE PlainForceConstant(RT, Fin(np_std(series)))
    IN  FittedParameters(kind, form, avg, k)

\* the parameters of i change in this step
Assigned(i) == inter'[i].parameters # inter[i].parameters

\* C10: the parameters a fit returns are those it returns when run alone on
\* its kind, form code and series, however the fits interleave; the
\* parameters of an interaction change only in the assignment of the fit of
\* that interaction, so a failing fit changes nobody's parameters.
C10_FitsIndependent ==
    /\ [](\A i \in Ids : Returned(i) =>
            inter[i].parameters =
                FitAlone(inter[i].kind, FormOf(i), distances[i]))
    /\ [][\A i \in Ids : Assigned(i) =>
            /\ fr[i].pc = "write" /\ fr'[i].pc = "done"
            /\ \A j \in Ids : fr'[j].pc = "failed" => fr[j].pc = "failed"]_vars

C10_Witness ==
    \E i, j \in Ids :
        /\ fr[i].pc = "failed" /\ inter[i].parameters = fr[i].entry
        /\ Returned(j) /\ Len(inter[j].parameters) = 3
        /\ inter[j].parameters # fr[j].entry

----------------------------------------------------------------------------
(* Properties of the lattice.                                              *)

\* sin(gamma) of a box
SinGammaZero(d) == SinFx(Radians(d[6])) = 0

\* z^2 - zx^2 - zy^2 of a box is negative
RadicandNegative(d) ==
    LET m == LatticeOf(d)
        r == FSub(FSub(FMul(Fin(d[3]), Fin(d[3])), FMul(m[3][1], m[3][1])),
                  FMul(m[3][2], m[3][2]))
    IN  r.cls # "nan" /\ r.v < 0

\* C9: dim2lattice raises on a box with sin(gamma) = 0 or with a negative
\* radicand of the third lattice vector, so self.pbc never holds the lattice
\* of such a box, nor a lattice with a nan or an infinity in it.
C9_DegenerateBoxRaises ==
    \A f \in DOMAIN pbc :
        /\ ~SinGammaZero(dimensions[f])
        /\ ~RadicandNegative(dimensions[f])
        /\ MatrixFinite(pbc[f])

=============================================================================
